---------------------------- MODULE Spec2Model ----------------------------
(***************************************************************************)
(* A model of the resume tailoring agent: the document mutation of         *)
(* src/resume_tailor.py (apply_updates_to_docx), its file-name sanitizer,  *)
(* the parsing of the LLM response, the keyword extraction of the local    *)
(* fallback, the per-job loop of src/main.py and the polling pass of       *)
(* src/telegram_bot.py (main_once).                                        *)
(*                                                                         *)
(* Text is modelled as a sequence of one-character strings, so that        *)
(* containment, lower-casing, trimming, joining and splitting are computed *)
(* as Python computes them.  Python indices are 0-based, TLA+ sequences    *)
(* 1-based: the paragraph at Python index k is paragraphs[k + 1].          *)
(***************************************************************************)
EXTENDS Integers, Sequences, FiniteSets, TLC

VARIABLES
    base_docx,      \* the paragraphs of data/base_resume.docx (BASE_DOCX)
    updates,        \* the dict handed to apply_updates_to_docx
    paragraphs,     \* doc.paragraphs, the document in memory
    lower_texts,    \* the lower-cased, trimmed paragraph texts taken at load
    apply_pc,       \* position inside apply_updates_to_docx
    raised,         \* the exception apply_updates_to_docx ended with, or "None"
    out_docx,       \* the paragraphs saved at out_docx_path, or NoFile
    name,           \* the argument of sanitize_name
    company_clean,  \* what sanitize_name returned, or NotRun
    job_desc,       \* the job description given to local_tailor_and_save
    keywords,       \* the keyword list local_tailor_and_save built, or NoKeywords
    main_pc,        \* position inside main()
    base_exists,    \* whether data/base_resume.docx exists
    pdf_exists,     \* whether data/Resume-ANURAJ.pdf exists
    jobs,           \* the list search_jobs returned (posting numbers)
    job_i,          \* the loop variable i of main()
    content,        \* the LLM response of the tailor_and_save call in progress
    err,            \* the exception main() caught from tailor_and_save
    results,        \* per job attempted so far, how its tailoring ended
    crash,          \* the exception that reached main()'s outer handler
    CHAT_ID,        \* TELEGRAM_CHAT_ID of the environment: <<>> unset, else <<text>>
    offset_file,    \* data/telegram_offset.txt: <<>> missing, else <<content>>
    jobcache,       \* the number of jobs in data/jobcatcher.json
    offset,         \* main_once's offset: <<>> for None, else <<n>>
    fetched,        \* main_once's updates, the list get_updates returned
    max_offset,     \* main_once's max_offset
    u_i,            \* the position of the loop of main_once in the list
    handled,        \* the command handlers run in this pass, in order
    replies,        \* the messages send_message sent in this pass, in order
    bot_pc,         \* position inside main_once
    bot_raised      \* the exception main_once ended with, or "None"

docx_vars == <<base_docx, updates, paragraphs, lower_texts, apply_pc, raised, out_docx>>
san_vars == <<name, company_clean>>
local_vars == <<job_desc, keywords>>
main_vars == <<main_pc, base_exists, pdf_exists, jobs, job_i, content, err, results, crash>>
bot_vars ==
    <<CHAT_ID, offset_file, jobcache, offset, fetched, max_offset, u_i,
      handled, replies, bot_pc, bot_raised>>
vars == <<docx_vars, san_vars, local_vars, main_vars, bot_vars>>

NotRun == <<"<not run>">>
NoKeywords == << <<"<not run>">> >>

NoFile == << <<"<no file>">> >>

(***************************************************************************)
(* Text helpers: Python's str.lower, str.strip, "in", join and split.      *)
(***************************************************************************)
UpperToLower ==
    ("A" :> "a") @@ ("B" :> "b") @@ ("C" :> "c") @@ ("D" :> "d") @@
    ("E" :> "e") @@ ("F" :> "f") @@ ("G" :> "g") @@ ("H" :> "h") @@
    ("I" :> "i") @@ ("J" :> "j") @@ ("K" :> "k") @@ ("L" :> "l") @@
    ("M" :> "m") @@ ("N" :> "n") @@ ("O" :> "o") @@ ("P" :> "p") @@
    ("Q" :> "q") @@ ("R" :> "r") @@ ("S" :> "s") @@ ("T" :> "t") @@
    ("U" :> "u") @@ ("V" :> "v") @@ ("W" :> "w") @@ ("X" :> "x") @@
    ("Y" :> "y") @@ ("Z" :> "z")

LowerChar(c) == IF c \in DOMAIN UpperToLower THEN UpperToLower[c] ELSE c

Lower(t) == [i \in 1..Len(t) |-> LowerChar(t[i])]

Whitespace == {" ", "\t", "\n", "\r"}

RECURSIVE LStrip(_)
LStrip(t) ==
    IF t # <<>> /\ Head(t) \in Whitespace THEN LStrip(Tail(t)) ELSE t

RECURSIVE RStrip(_)
RStrip(t) ==
    IF t # <<>> /\ t[Len(t)] \in Whitespace
    THEN RStrip(SubSeq(t, 1, Len(t) - 1))
    ELSE t

Strip(t) == RStrip(LStrip(t))

\* Python's  h in t  on strings: h occurs in t as a contiguous substring.
Contains(h, t) ==
    \E i \in 0..(Len(t) - Len(h)) : SubSeq(t, i + 1, i + Len(h)) = h

\* sep.join(parts)
RECURSIVE Join(_, _)
Join(sep, parts) ==
    IF parts = <<>> THEN <<>>
    ELSE IF Len(parts) = 1 THEN parts[1]
    ELSE parts[1] \o sep \o Join(sep, Tail(parts))

\* t.split("\n"): the pieces between the newlines, empty pieces kept.
RECURSIVE SplitLines(_, _)
SplitLines(t, cur) ==
    IF t = <<>> THEN <<cur>>
    ELSE IF Head(t) = "\n" THEN <<cur>> \o SplitLines(Tail(t), <<>>)
    ELSE SplitLines(Tail(t), Append(cur, Head(t)))

RECURSIVE MapStripNonEmpty(_)
MapStripNonEmpty(pieces) ==
    IF pieces = <<>> THEN <<>>
    ELSE IF Strip(Head(pieces)) # <<>>
         THEN <<Strip(Head(pieces))>> \o MapStripNonEmpty(Tail(pieces))
         ELSE MapStripNonEmpty(Tail(pieces))

(***************************************************************************)
(* apply_updates_to_docx: the heading aliases and the section mutation.    *)
(***************************************************************************)
SummaryAliases ==
    << <<"p", "r", "o", "f", "i", "l", "e", " ", "s", "u", "m", "m", "a", "r", "y">>,
       <<"p", "r", "o", "f", "i", "l", "e">>,
       <<"s", "u", "m", "m", "a", "r", "y">> >>

SkillsAliases ==
    << <<"c", "o", "r", "e", " ", "c", "o", "m", "p", "e", "t", "e", "n", "c", "i", "e", "s">>,
       <<"i", "t", " ", "s", "k", "i", "l", "l", "s">>,
       <<"s", "k", "i", "l", "l", "s">>,
       <<"c", "o", "r", "e", " ", "s", "k", "i", "l", "l", "s">> >>

ExperienceAliases ==
    << <<"w", "o", "r", "k", " ", "e", "x", "p", "e", "r", "i", "e", "n", "c", "e">>,
       <<"e", "x", "p", "e", "r", "i", "e", "n", "c", "e">>,
       <<"p", "r", "o", "j", "e", "c", "t", "s">> >>

\* para_texts = [p.text.strip() ...];  lower_texts = [t.lower() for t in para_texts]
LowerTexts(doc) == [i \in 1..Len(doc) |-> Lower(Strip(doc[i]))]

\* for idx, t in enumerate(lower_texts): if h in t: ...   (0 when no paragraph
\* holds h, else the 1-based position of the first one that does)
RECURSIVE FirstParaWith(_, _, _)
FirstParaWith(h, texts, pos) ==
    IF pos > Len(texts) THEN 0
    ELSE IF Contains(h, texts[pos]) THEN pos
    ELSE FirstParaWith(h, texts, pos + 1)

\* The inner loop of replace_section_by_heading: line i goes to Python index
\* start + i when that index exists in the document as it is by then, and is
\* appended otherwise.  start_pos is the 1-based position of Python index start.
\* A variant of ApplyLines that inserts the lines at start instead of
\* overwriting, shifting the paragraphs that follow.
ApplyLinesInsert(doc, start_pos, new_lines) ==
    IF start_pos <= Len(doc)
    THEN SubSeq(doc, 1, start_pos - 1) \o new_lines \o SubSeq(doc, start_pos, Len(doc))
    ELSE doc \o new_lines

RECURSIVE ApplyLines(_, _, _)
ApplyLines(doc, start_pos, new_lines) ==
    IF new_lines = <<>> THEN doc
    ELSE IF start_pos <= Len(doc)
         THEN ApplyLines([doc EXCEPT ![start_pos] = Head(new_lines)],
                         start_pos + 1, Tail(new_lines))
         ELSE ApplyLines(Append(doc, Head(new_lines)),
                         start_pos + 1, Tail(new_lines))

\* replace_section_by_heading's search: the aliases in list order, each tried
\* over the whole document, guarded by  h in "".join(lower_texts).  The
\* 1-based position of the heading paragraph, 0 when the function falls through.
\* A variant of HeadingPos that gives priority to document position: the
\* first paragraph that holds any alias of the list.
RECURSIVE HeadingPosByPosition(_, _, _)
HeadingPosByPosition(heading_list, texts, pos) ==
    IF pos > Len(texts) THEN 0
    ELSE IF \E a \in 1..Len(heading_list) : Contains(heading_list[a], texts[pos])
         THEN pos
         ELSE HeadingPosByPosition(heading_list, texts, pos + 1)

RECURSIVE HeadingPos(_, _, _)
HeadingPos(heading_list, texts, hi) ==
    IF hi > Len(heading_list) THEN 0
    ELSE IF Contains(heading_list[hi], Join(<<>>, texts))
            /\ FirstParaWith(heading_list[hi], texts, 1) # 0
         THEN FirstParaWith(heading_list[hi], texts, 1)
         ELSE HeadingPos(heading_list, texts, hi + 1)

\* replace_section_by_heading(heading_list, new_lines): the document after
\* the call and the value returned.
ReplaceSectionByHeading(doc, texts, heading_list, new_lines) ==
    LET pos == HeadingPos(heading_list, texts, 1)
    IN  IF pos = 0
        THEN [replaced |-> FALSE, doc |-> doc]
        ELSE [replaced |-> TRUE, doc |-> ApplyLines(doc, pos + 1, new_lines)]

\* The search of the experience step (lines 142-144): the aliases in list
\* order, each tried over every paragraph; no guard on the joined text.
RECURSIVE ExperiencePos(_, _, _)
ExperiencePos(heading_list, texts, hi) ==
    IF hi > Len(heading_list) THEN 0
    ELSE IF FirstParaWith(heading_list[hi], texts, 1) # 0
         THEN FirstParaWith(heading_list[hi], texts, 1)
         ELSE ExperiencePos(heading_list, texts, hi + 1)

Bullet(b) == <<"-", " ">> \o b

\* Line 148, once per bullet:
\*   doc.paragraphs[insert_at].text = "-" + " " + b  if insert_at < len(doc.paragraphs)
\*                                    else doc.add_paragraph("- " + b)
\* The right-hand side is evaluated first.  When insert_at is past the end it
\* appends the bullet paragraph and yields a Paragraph object; the target
\* doc.paragraphs[insert_at] is then that new paragraph, whose text setter
\* clears it and fails on the non-string value (TypeError).
\* A variant of WriteBullets that inserts the bullets after the heading,
\* shifting the paragraphs that follow, instead of overwriting them.
WriteBulletsInsert(doc, insert_pos, exp_updates) ==
    LET at == IF insert_pos <= Len(doc) THEN insert_pos ELSE Len(doc) + 1
    IN  [doc |-> SubSeq(doc, 1, at - 1)
                 \o [j \in 1..Len(exp_updates) |-> Bullet(exp_updates[j])]
                 \o SubSeq(doc, at, Len(doc)),
         raised |-> "None"]

RECURSIVE WriteBullets(_, _, _)
WriteBullets(doc, insert_pos, exp_updates) ==
    IF exp_updates = <<>> THEN [doc |-> doc, raised |-> "None"]
    ELSE IF insert_pos <= Len(doc)
         THEN WriteBullets([doc EXCEPT ![insert_pos] = Bullet(Head(exp_updates))],
                           insert_pos + 1, Tail(exp_updates))
         ELSE LET added == Append(doc, Bullet(Head(exp_updates)))
              IN  IF insert_pos <= Len(added)
                  THEN [doc |-> [added EXCEPT ![insert_pos] = <<>>],
                        raised |-> "TypeError"]
                  ELSE [doc |-> added, raised |-> "IndexError"]

ExperienceHeader ==
    <<"E", "x", "p", "e", "r", "i", "e", "n", "c", "e", " ",
      "u", "p", "d", "a", "t", "e", "s", ":">>

RECURSIVE AppendBullets(_, _)
AppendBullets(doc, exp_updates) ==
    IF exp_updates = <<>> THEN doc
    ELSE AppendBullets(Append(doc, Bullet(Head(exp_updates))), Tail(exp_updates))

\* A variant of ExperienceStep whose fallback appends the bullets without
\* the "Experience updates:" header paragraph.
ExperienceStepNoHeader(doc, texts, exp_updates) ==
    LET pos == ExperiencePos(ExperienceAliases, texts, 1)
    IN  IF exp_updates = <<>> THEN [doc |-> doc, raised |-> "None"]
        ELSE IF pos # 0 THEN WriteBullets(doc, pos + 1, exp_updates)
        ELSE [doc |-> AppendBullets(doc, exp_updates), raised |-> "None"]

\* Lines 139-158: the experience step on document doc.
ExperienceStep(doc, texts, exp_updates) ==
    LET pos == ExperiencePos(ExperienceAliases, texts, 1)
    IN  IF exp_updates = <<>> THEN [doc |-> doc, raised |-> "None"]
        ELSE IF pos # 0 THEN WriteBullets(doc, pos + 1, exp_updates)
        ELSE [doc |-> AppendBullets(Append(doc, ExperienceHeader), exp_updates),
              raised |-> "None"]

\* Lines 123-130: the summary step on document doc.
SummaryLines(summary) == MapStripNonEmpty(SplitLines(summary, <<>>))

SummaryStep(doc, texts, summary) ==
    LET lines == SummaryLines(summary)
        r == ReplaceSectionByHeading(doc, texts, SummaryAliases, lines)
    IN  IF summary = <<>> THEN [doc |-> doc, raised |-> "None"]
        ELSE IF r.replaced THEN [doc |-> r.doc, raised |-> "None"]
        ELSE IF Len(doc) = 0 THEN [doc |-> doc, raised |-> "IndexError"]
        ELSE [doc |-> [doc EXCEPT ![1] = Join(<<" ">>, lines)], raised |-> "None"]

\* Lines 133-136: the skills step on document doc.
SkillsLine(skills) == Join(<<",", " ">>, skills)

\* A variant of SkillsStep that writes one paragraph per skill instead of
\* the single comma-joined line.
SkillsStepPerLine(doc, texts, skills) ==
    IF skills = <<>> THEN doc
    ELSE ReplaceSectionByHeading(doc, texts, SkillsAliases, skills).doc

SkillsStep(doc, texts, skills) ==
    IF skills = <<>> THEN doc
    ELSE ReplaceSectionByHeading(doc, texts, SkillsAliases,
                                 <<SkillsLine(skills)>>).doc

(***************************************************************************)
(* The inputs of the document model.                                       *)
(***************************************************************************)
MaxParas == 3
MaxEntries == 2

ParaPool ==
    { <<"S", "u", "m", "m", "a", "r", "y">>,
      <<"S", "k", "i", "l", "l", "s">>,
      <<"I", "T", " ", "S", "k", "i", "l", "l", "s">>,
      <<"E", "x", "p", "e", "r", "i", "e", "n", "c", "e">>,
      <<"P", "r", "o", "j", "e", "c", "t", "s">>,
      <<"Q", "A">> }

Docs == UNION { [1..n -> ParaPool] : n \in 0..MaxParas }

SkillEntries ==
    << <<"S", "E", "L", "E", "N", "I", "U", "M">>, <<"J", "A", "V", "A">>,
       <<"A", "P", "I">>, <<"B", "D", "D">>, <<"C", "I">> >>

BulletEntries ==
    << <<"L", "e", "d", " ", "Q", "A">>, <<"C", "I">>, <<"A", "P", "I">>,
       <<"B", "D", "D">>, <<"J", "A", "V", "A">> >>

Prefixes(entries) ==
    { SubSeq(entries, 1, n) : n \in 0..(IF MaxEntries < Len(entries)
                                        THEN MaxEntries ELSE Len(entries)) }

Summaries ==
    { <<>>,
      <<"Q", "A", " ", "l", "e", "a", "d">>,
      <<"S", "D", "E", "T", "\n", " ", "\n", " ", "C", "I">> }

Updates ==
    [summary : Summaries, skills : Prefixes(SkillEntries),
     experience_updates : Prefixes(BulletEntries)]

(***************************************************************************)
(* apply_updates_to_docx as a state machine: the document is loaded, then  *)
(* the summary, skills and experience steps run in that order, then the    *)
(* document is saved.  lower_texts is computed once, from the document as  *)
(* loaded (lines 101-102), and is not refreshed between the steps.         *)
(***************************************************************************)
\* The parts of the state a specification does not exercise stay as they are
\* before any call.
DocxIdle ==
    /\ base_docx = <<>> /\ updates = [summary |-> <<>>, skills |-> <<>>,
                                      experience_updates |-> <<>>]
    /\ paragraphs = <<>> /\ lower_texts = <<>>
    /\ apply_pc = "idle" /\ raised = "None" /\ out_docx = NoFile

SanitizeIdle == name = <<>> /\ company_clean = NotRun

LocalIdle == job_desc = <<>> /\ keywords = NoKeywords

NoError == [kind |-> "None", quota |-> FALSE]

MainIdle ==
    /\ main_pc = "idle" /\ base_exists = TRUE /\ pdf_exists = FALSE
    /\ jobs = <<>> /\ job_i = 0 /\ content = <<>> /\ err = NoError
    /\ results = <<>> /\ crash = "None"

BotIdle ==
    /\ CHAT_ID = <<>> /\ offset_file = <<>> /\ jobcache = 0
    /\ offset = <<>> /\ fetched = <<>> /\ max_offset = 0 /\ u_i = 0
    /\ handled = <<>> /\ replies = <<>>
    /\ bot_pc = "idle" /\ bot_raised = "None"

InitDocx ==
    /\ SanitizeIdle /\ LocalIdle /\ MainIdle /\ BotIdle
    /\ base_docx \in Docs
    /\ updates \in Updates
    /\ paragraphs = base_docx
    /\ lower_texts = LowerTexts(base_docx)
    /\ apply_pc = "summary"
    /\ raised = "None"
    /\ out_docx = NoFile

ApplySummary ==
    /\ apply_pc = "summary"
    /\ LET r == SummaryStep(paragraphs, lower_texts, updates.summary)
       IN  /\ paragraphs' = r.doc
           /\ raised' = r.raised
           /\ apply_pc' = IF r.raised = "None" THEN "skills" ELSE "raised"
    /\ UNCHANGED <<base_docx, updates, lower_texts, out_docx, san_vars, local_vars, main_vars, bot_vars>>

ApplySkills ==
    /\ apply_pc = "skills"
    /\ paragraphs' = SkillsStep(paragraphs, lower_texts, updates.skills)
    /\ apply_pc' = "experience"
    /\ UNCHANGED <<base_docx, updates, lower_texts, raised, out_docx, san_vars, local_vars, main_vars, bot_vars>>

ApplyExperience ==
    /\ apply_pc = "experience"
    /\ LET r == ExperienceStep(paragraphs, lower_texts, updates.experience_updates)
       IN  /\ paragraphs' = r.doc
           /\ raised' = r.raised
           /\ apply_pc' = IF r.raised = "None" THEN "save" ELSE "raised"
    /\ UNCHANGED <<base_docx, updates, lower_texts, out_docx, san_vars, local_vars, main_vars, bot_vars>>

\* Lines 161-162: doc.save(out_docx_path) writes the document or fails.
SaveDocx ==
    /\ apply_pc = "save"
    /\ \E written \in BOOLEAN :
          IF written
          THEN /\ out_docx' = paragraphs
               /\ apply_pc' = "saved"
               /\ raised' = raised
          ELSE /\ out_docx' = out_docx
               /\ apply_pc' = "raised"
               /\ raised' = "IOError"
    /\ UNCHANGED <<base_docx, updates, paragraphs, lower_texts, san_vars, local_vars, main_vars, bot_vars>>

NextDocx == ApplySummary \/ ApplySkills \/ ApplyExperience \/ SaveDocx

SpecDocx == InitDocx /\ [][NextDocx]_vars

(***************************************************************************)
(* Properties of the document mutation.  Located states section location   *)
(* declaratively, apart from the loops of the code: the earliest alias of  *)
(* the list that some paragraph holds decides, and among the paragraphs    *)
(* that hold it the lowest one is the heading.                             *)
(***************************************************************************)
SetMin(S) == CHOOSE x \in S : \A y \in S : x <= y

AliasHits(aliases, texts, a) ==
    { p \in 1..Len(texts) : Contains(aliases[a], texts[p]) }

MatchingAliases(aliases, texts) ==
    { a \in 1..Len(aliases) : AliasHits(aliases, texts, a) # {} }

\* The 1-based position of the located heading of doc, 0 for "not found".
Located(aliases, doc) ==
    LET texts == LowerTexts(doc)
    IN  IF MatchingAliases(aliases, texts) = {} THEN 0
        ELSE SetMin(AliasHits(aliases, texts, SetMin(MatchingAliases(aliases, texts))))

OnlySkills ==
    /\ updates.summary = <<>>
    /\ updates.experience_updates = <<>>
    /\ updates.skills # <<>>

\* C4: when a skills alias is located at index k, k+1 exists and the update
\* carries only skills, the saved document is the base document with the
\* paragraph at k+1 reading the skills joined by ", " and nothing else changed.
C4_SkillsOnlyRewritesNext ==
    LET p == Located(SkillsAliases, base_docx)
    IN  (apply_pc = "saved" /\ OnlySkills /\ p # 0 /\ p + 1 <= Len(base_docx))
        => /\ Len(out_docx) = Len(base_docx)
           /\ out_docx[p + 1] = Join(<<",", " ">>, updates.skills)
           /\ \A q \in 1..Len(base_docx) : q # p + 1 => out_docx[q] = base_docx[q]

\* The spec's example in small: "Skills" heads the skills section, two skills.
C4_Witness ==
    LET p == Located(SkillsAliases, base_docx)
    IN  /\ apply_pc = "saved" /\ OnlySkills
        /\ p # 0 /\ p + 1 <= Len(base_docx)
        /\ updates.skills = << <<"S", "E", "L", "E", "N", "I", "U", "M">>,
                               <<"J", "A", "V", "A">> >>
        /\ out_docx[p + 1] = <<"S", "E", "L", "E", "N", "I", "U", "M", ",", " ",
                               "J", "A", "V", "A">>
        /\ base_docx[p + 1] # out_docx[p + 1]

OnlyExperience ==
    /\ updates.summary = <<>>
    /\ updates.skills = <<>>
    /\ updates.experience_updates # <<>>

NoExperienceHeading ==
    \A a \in 1..Len(ExperienceAliases) : \A q \in 1..Len(base_docx) :
        ~Contains(ExperienceAliases[a], Lower(Strip(base_docx[q])))

\* C5: with no paragraph matching an experience alias and only experience
\* updates e1..em, the saved document is the n base paragraphs, then
\* "Experience updates:", then "- e1" .. "- em" in order.
C5_FallbackAppendsHeaderAndBullets ==
    LET n == Len(base_docx)
        m == Len(updates.experience_updates)
    IN  (apply_pc = "saved" /\ OnlyExperience /\ NoExperienceHeading)
        => /\ Len(out_docx) = n + 1 + m
           /\ SubSeq(out_docx, 1, n) = base_docx
           /\ out_docx[n + 1] = <<"E", "x", "p", "e", "r", "i", "e", "n", "c", "e", " ",
                                  "u", "p", "d", "a", "t", "e", "s", ":">>
           /\ \A j \in 1..m :
                 out_docx[n + 1 + j] = <<"-", " ">> \o updates.experience_updates[j]

C5_Witness ==
    /\ apply_pc = "saved" /\ OnlyExperience /\ NoExperienceHeading
    /\ Len(base_docx) >= 2
    /\ Len(updates.experience_updates) >= 2
    /\ Len(out_docx) = Len(base_docx) + 1 + Len(updates.experience_updates)

\* What the section mutator may do to document before, giving after, when
\* it writes lines from Python index start (start_pos is start + 1): no
\* paragraph is deleted or moved, the paragraphs below start keep their text,
\* line i lands on index start + i when the document had it and is otherwise
\* a new last paragraph, and nothing else changes.
AppendedBefore(before, start_pos, i) ==
    Cardinality({ j \in 1..(i - 1) : start_pos + j - 1 > Len(before) })

MutatorFrame(before, after, start_pos, lines) ==
    /\ Len(after) >= Len(before)
    /\ \A q \in 1..Len(before) : q < start_pos => after[q] = before[q]
    /\ \A i \in 1..Len(lines) :
          IF start_pos + i - 1 <= Len(before)
          THEN after[start_pos + i - 1] = lines[i]
          ELSE after[Len(before) + AppendedBefore(before, start_pos, i) + 1] = lines[i]
    /\ Len(after) = Len(before) + AppendedBefore(before, start_pos, Len(lines) + 1)
    /\ \A q \in 1..Len(before) : q >= start_pos + Len(lines) => after[q] = before[q]

\* C6: the section mutator never deletes or reorders paragraphs.  Checked on
\* both calls of replace_section_by_heading, the summary step and the skills
\* step, whenever the heading is located: the step takes the document to one
\* that MutatorFrame allows for the located start and the lines written.
C6_MutatorOverwritesOrAppends ==
    [][ /\ (apply_pc = "summary" /\ updates.summary # <<>>
              /\ Located(SummaryAliases, base_docx) # 0)
           => MutatorFrame(paragraphs, paragraphs',
                           Located(SummaryAliases, base_docx) + 1,
                           MapStripNonEmpty(SplitLines(updates.summary, <<>>)))
        /\ (apply_pc = "skills" /\ updates.skills # <<>>
              /\ Located(SkillsAliases, base_docx) # 0)
           => MutatorFrame(paragraphs, paragraphs',
                           Located(SkillsAliases, base_docx) + 1,
                           <<Join(<<",", " ">>, updates.skills)>>)
      ]_vars

\* After the summary step: one line overwrote the last paragraph and the next
\* line was appended.
C6_Witness ==
    /\ apply_pc = "skills"
    /\ Located(SummaryAliases, base_docx) # 0
    /\ Len(base_docx) >= 2
    /\ Len(paragraphs) = Len(base_docx) + 1
    /\ paragraphs[Len(base_docx)] # base_docx[Len(base_docx)]
    /\ SubSeq(paragraphs, 1, Len(base_docx) - 1) = SubSeq(base_docx, 1, Len(base_docx) - 1)

\* pos is where alias priority puts the heading among the lower-cased, trimmed
\* paragraph texts: 0 exactly when no paragraph holds any alias, else the
\* lowest paragraph holding an alias that no paragraph holds an earlier one of.
LocatesByAliasPriority(pos, aliases, texts) ==
    /\ pos \in 0..Len(texts)
    /\ pos = 0 <=> \A a \in 1..Len(aliases) : \A q \in 1..Len(texts) :
                      ~Contains(aliases[a], texts[q])
    /\ pos # 0 => \E a \in 1..Len(aliases) :
                     /\ Contains(aliases[a], texts[pos])
                     /\ \A q \in 1..(pos - 1) : ~Contains(aliases[a], texts[q])
                     /\ \A b \in 1..(a - 1) : \A q \in 1..Len(texts) :
                           ~Contains(aliases[b], texts[q])

\* C7: section location follows alias priority, not document position: both
\* searches of the code (replace_section_by_heading's and the experience
\* step's) give the lowest paragraph that holds the earliest alias held by any
\* paragraph, and "not found" exactly when no paragraph holds any alias; once
\* the skills step has run, its line is at the index after that heading.
C7_LocateByAliasPriority ==
    apply_pc = "experience"
    => LET texts == lower_texts
           skills_pos == HeadingPos(SkillsAliases, texts, 1)
       IN  /\ texts = [q \in 1..Len(base_docx) |-> Lower(Strip(base_docx[q]))]
           /\ LocatesByAliasPriority(HeadingPos(SummaryAliases, texts, 1),
                                     SummaryAliases, texts)
           /\ LocatesByAliasPriority(skills_pos, SkillsAliases, texts)
           /\ LocatesByAliasPriority(ExperiencePos(ExperienceAliases, texts, 1),
                                     ExperienceAliases, texts)
           /\ skills_pos = Located(SkillsAliases, base_docx)
           /\ (updates.skills # <<>> /\ skills_pos # 0)
              => paragraphs[skills_pos + 1] = Join(<<",", " ">>, updates.skills)

\* A later alias ("skills") matches a lower paragraph than the earlier alias
\* ("it skills") does, and the skills line went after the latter.
C7_Witness ==
    LET p == Located(SkillsAliases, base_docx)
    IN  /\ apply_pc = "experience" /\ updates.skills # <<>>
        /\ p # 0
        /\ \E q \in 1..(p - 1) : \E a \in 1..Len(SkillsAliases) :
              Contains(SkillsAliases[a], Lower(Strip(base_docx[q])))
        /\ paragraphs[p + 1] = Join(<<",", " ">>, updates.skills)

\* C10: when an experience alias is located at index k, the experience step
\* completes without error and the paragraphs at k+1..k+m read "- e1".."- em",
\* also when the heading is the last paragraph of the document.
C10_BulletsAfterHeading ==
    LET p == Located(ExperienceAliases, base_docx)
        m == Len(updates.experience_updates)
    IN  (p # 0 /\ m > 0)
        => /\ raised \notin {"TypeError", "IndexError"}
           /\ apply_pc \in {"save", "saved"}
              => \A j \in 1..m :
                    /\ p + j <= Len(paragraphs)
                    /\ paragraphs[p + j] = <<"-", " ">> \o updates.experience_updates[j]

\* C11: when the update carries a summary, the summary step completes; with
\* no paragraph matching a summary alias it overwrites the first paragraph
\* and never appends (same paragraph count, only paragraph 0 changes, and it
\* holds the summary's non-empty lines); with a summary alias located at index
\* k, the non-empty lines of the summary are the paragraphs from k+1 on, one
\* line each.
C11_SummaryOverwritesFirstOrFollowsHeading ==
    [][ (apply_pc = "summary" /\ updates.summary # <<>>)
        => LET k == Located(SummaryAliases, base_docx)
               lines == MapStripNonEmpty(SplitLines(updates.summary, <<>>))
           IN  /\ apply_pc' = "skills"
               /\ IF k = 0
                  THEN /\ Len(paragraphs') = Len(paragraphs)
                       /\ Len(paragraphs') >= 1
                       /\ paragraphs'[1] = Join(<<" ">>, lines)
                       /\ \A q \in 2..Len(paragraphs) : paragraphs'[q] = paragraphs[q]
                  ELSE \A j \in 1..Len(lines) :
                          /\ k + j <= Len(paragraphs')
                          /\ paragraphs'[k + j] = lines[j]
      ]_vars

(***************************************************************************)
(* The three steps of apply_updates_to_docx run in another order.  Each    *)
(* step is the step of the code, searching lower_texts as computed at load *)
(* time; a step that raises ends the run.                                  *)
(***************************************************************************)
StepNames == {"summary", "skills", "experience"}

Orders == { o \in [1..3 -> StepNames] : \A i, j \in 1..3 : o[i] = o[j] => i = j }

StepOf(step, doc, texts, upd) ==
    IF step = "summary" THEN SummaryStep(doc, texts, upd.summary)
    ELSE IF step = "skills"
         THEN [doc |-> SkillsStep(doc, texts, upd.skills), raised |-> "None"]
         ELSE ExperienceStep(doc, texts, upd.experience_updates)

RECURSIVE RunOrder(_, _, _, _)
RunOrder(order, doc, texts, upd) ==
    IF order = <<>> THEN [doc |-> doc, raised |-> "None"]
    ELSE LET r == StepOf(Head(order), doc, texts, upd)
         IN  IF r.raised # "None" THEN r
             ELSE RunOrder(Tail(order), r.doc, texts, upd)

\* C12 as stated: whenever the specified order (summary, skills, experience)
\* completes, each of the six orders of the three mutations completes with
\* the same final paragraph sequence.
C12_AnyOrderSameResult ==
    apply_pc = "save"
    => \A order \in Orders :
          RunOrder(order, base_docx, lower_texts, updates)
             = [doc |-> paragraphs, raised |-> "None"]

\* The positions (1-based) each mutation writes, counted on the document as
\* loaded; a position above Len(base_docx) is an append.
SummaryWrites ==
    LET k == Located(SummaryAliases, base_docx)
        n == Len(MapStripNonEmpty(SplitLines(updates.summary, <<>>)))
    IN  IF updates.summary = <<>> THEN {}
        ELSE IF k = 0 THEN {1}
        ELSE (k + 1)..(k + n)

SkillsWrites ==
    LET k == Located(SkillsAliases, base_docx)
    IN  IF updates.skills = <<>> \/ k = 0 THEN {} ELSE {k + 1}

ExperienceWrites ==
    LET k == Located(ExperienceAliases, base_docx)
        m == Len(updates.experience_updates)
    IN  IF m = 0 THEN {}
        ELSE IF k = 0 THEN (Len(base_docx) + 1)..(Len(base_docx) + 1 + m)
        ELSE (k + 1)..(k + m)

OverwritesApart ==
    /\ (SummaryWrites \cup SkillsWrites \cup ExperienceWrites) \subseteq 1..Len(base_docx)
    /\ SummaryWrites \cap SkillsWrites = {}
    /\ SummaryWrites \cap ExperienceWrites = {}
    /\ SkillsWrites \cap ExperienceWrites = {}

\* C12 as amended: when every mutation writes only paragraphs the loaded
\* document has (none appends) and no two mutations write the same index, no
\* step raises and all six orders give the paragraph sequence the specified
\* order gives.
C12_DisjointOverwritesCommute ==
    /\ raised \in {"TypeError", "IndexError"} => ~OverwritesApart
    /\ (apply_pc = "save" /\ OverwritesApart)
       => \A order \in Orders :
             RunOrder(order, base_docx, lower_texts, updates)
                = [doc |-> paragraphs, raised |-> "None"]

\* All three mutations wrote, each its own paragraph of the loaded document.
C12_Witness ==
    /\ apply_pc = "save"
    /\ OverwritesApart
    /\ SummaryWrites # {} /\ SkillsWrites # {} /\ ExperienceWrites # {}
    /\ \A q \in SummaryWrites \cup SkillsWrites \cup ExperienceWrites :
          paragraphs[q] # base_docx[q]

(***************************************************************************)
(* sanitize_name (resume_tailor.py, lines 23-26).                          *)
(***************************************************************************)
Digits == {"0", "1", "2", "3", "4", "5", "6", "7", "8", "9"}

\* \w: letters, digits and the underscore.
WordChars ==
    DOMAIN UpperToLower \cup { UpperToLower[c] : c \in DOMAIN UpperToLower }
        \cup Digits \cup {"_"}

\* re.sub(r"[^\w\-]+", "_", t): every maximal run of characters that are
\* neither word characters nor hyphens becomes one underscore.
RECURSIVE SubNonWordRuns(_, _)
SubNonWordRuns(t, in_run) ==
    IF t = <<>> THEN <<>>
    ELSE IF Head(t) \in WordChars \cup {"-"}
         THEN <<Head(t)>> \o SubNonWordRuns(Tail(t), FALSE)
    ELSE IF in_run THEN SubNonWordRuns(Tail(t), TRUE)
    ELSE <<"_">> \o SubNonWordRuns(Tail(t), TRUE)

\* re.sub(r"__+", "_", t): every run of two or more underscores becomes one.
RECURSIVE CollapseUnderscores(_)
CollapseUnderscores(t) ==
    IF Len(t) < 2 THEN t
    ELSE IF t[1] = "_" /\ t[2] = "_" THEN CollapseUnderscores(Tail(t))
    ELSE <<t[1]>> \o CollapseUnderscores(Tail(t))

\* t.strip("_")
RECURSIVE StripUnderscores(_)
StripUnderscores(t) ==
    IF t # <<>> /\ Head(t) = "_" THEN StripUnderscores(Tail(t))
    ELSE IF t # <<>> /\ t[Len(t)] = "_"
         THEN StripUnderscores(SubSeq(t, 1, Len(t) - 1))
    ELSE t

\* The truncation length of sanitize_name, [:120] in the source, scaled down
\* so that names longer than it fit the model.
TruncLen == 3

Truncate(t) == SubSeq(t, 1, IF Len(t) < TruncLen THEN Len(t) ELSE TruncLen)

SanitizeName(n) ==
    Truncate(StripUnderscores(CollapseUnderscores(SubNonWordRuns(Strip(n), FALSE))))

MaxNameLen == 4

NameChars == {"a", "_", "-", " ", "."}

Names == UNION { [1..n -> NameChars] : n \in 0..MaxNameLen }

InitSanitize ==
    /\ DocxIdle /\ LocalIdle /\ MainIdle /\ BotIdle
    /\ name \in Names
    /\ company_clean = NotRun

CallSanitizeName ==
    /\ company_clean = NotRun
    /\ company_clean' = SanitizeName(name)
    /\ UNCHANGED <<name, docx_vars, local_vars, main_vars, bot_vars>>

NextSanitize == CallSanitizeName

SpecSanitize == InitSanitize /\ [][NextSanitize]_vars

\* C8: sanitize_name is idempotent, and its result holds only word characters,
\* hyphens and single underscores, has no leading or trailing underscore and
\* is no longer than the truncation length.
C8_SanitizeIdempotentBounded ==
    company_clean # NotRun
    => /\ SanitizeName(company_clean) = company_clean
       /\ \A i \in 1..Len(company_clean) : company_clean[i] \in WordChars \cup {"-"}
       /\ \A i \in 1..(Len(company_clean) - 1) :
             ~(company_clean[i] = "_" /\ company_clean[i + 1] = "_")
       /\ company_clean # <<>>
          => company_clean[1] # "_" /\ company_clean[Len(company_clean)] # "_"
       /\ Len(company_clean) <= TruncLen

(***************************************************************************)
(* The keyword list of local_tailor_and_save (main.py, lines 43-60).       *)
(***************************************************************************)
UpperChar(c) ==
    IF \E u \in DOMAIN UpperToLower : UpperToLower[u] = c
    THEN CHOOSE u \in DOMAIN UpperToLower : UpperToLower[u] = c
    ELSE c

Upper(t) == [i \in 1..Len(t) |-> UpperChar(t[i])]

common_terms ==
    << <<"s", "e", "l", "e", "n", "i", "u", "m">>,
       <<"j", "a", "v", "a">>,
       <<"p", "y", "t", "h", "o", "n">>,
       <<"b", "d", "d">>,
       <<"c", "u", "c", "u", "m", "b", "e", "r">>,
       <<"r", "e", "s", "t">>,
       <<"a", "p", "i">>,
       <<"c", "i", "/", "c", "d">>,
       <<"j", "e", "n", "k", "i", "n", "s">>,
       <<"p", "a", "g", "e", " ", "o", "b", "j", "e", "c", "t", " ", "m", "o", "d", "e", "l">>,
       <<"w", "e", "b", "d", "r", "i", "v", "e", "r">> >>

stop ==
    { <<"w", "i", "t", "h">>, <<"t", "h", "a", "t">>, <<"w", "h", "i", "c", "h">>,
      <<"u", "s", "i", "n", "g">>,
      <<"e", "x", "p", "e", "r", "i", "e", "n", "c", "e">>,
      <<"y", "e", "a", "r", "s">>, <<"r", "e", "q", "u", "i", "r", "e", "d">>,
      <<"r", "o", "l", "e">>, <<"w", "i", "l", "l">>, <<"w", "o", "r", "k">>,
      <<"a", "n", "d">>, <<"t", "h", "e">>, <<"f", "o", "r">>, <<"i", "n">>,
      <<"a">>, <<"t", "o">> }

\* for t in common_terms: if t in job_text: keywords.append(t.upper())
RECURSIVE TermHits(_, _)
TermHits(terms, job_text) ==
    IF terms = <<>> THEN <<>>
    ELSE IF Contains(Head(terms), job_text)
         THEN <<Upper(Head(terms))>> \o TermHits(Tail(terms), job_text)
         ELSE TermHits(Tail(terms), job_text)

\* job_text.split(): the maximal runs of non-whitespace characters.
RECURSIVE SplitWords(_, _)
SplitWords(t, cur) ==
    IF t = <<>> THEN (IF cur = <<>> THEN <<>> ELSE <<cur>>)
    ELSE IF Head(t) \in Whitespace
         THEN (IF cur = <<>> THEN <<>> ELSE <<cur>>) \o SplitWords(Tail(t), <<>>)
         ELSE SplitWords(Tail(t), Append(cur, Head(t)))

\* w.strip(".,()")
RECURSIVE StripPunct(_)
StripPunct(w) ==
    IF w # <<>> /\ Head(w) \in {".", ",", "(", ")"} THEN StripPunct(Tail(w))
    ELSE IF w # <<>> /\ w[Len(w)] \in {".", ",", "(", ")"}
         THEN StripPunct(SubSeq(w, 1, Len(w) - 1))
    ELSE w

\* tokens = [w.strip(".,()") for w in job_text.split() if len(w) > 3]
RECURSIVE Tokens(_)
Tokens(words) ==
    IF words = <<>> THEN <<>>
    ELSE IF Len(Head(words)) > 3
         THEN <<StripPunct(Head(words))>> \o Tokens(Tail(words))
         ELSE Tokens(Tail(words))

Count(w, tokens) == Cardinality({ i \in 1..Len(tokens) : tokens[i] = w })

\* The keys of freq in insertion order: each token at its first occurrence.
RECURSIVE FreqKeys(_, _)
FreqKeys(tokens, seen) ==
    IF tokens = <<>> THEN <<>>
    ELSE IF Head(tokens) \in seen THEN FreqKeys(Tail(tokens), seen)
    ELSE <<Head(tokens)>> \o FreqKeys(Tail(tokens), seen \cup {Head(tokens)})

Without(seq, i) == SubSeq(seq, 1, i - 1) \o SubSeq(seq, i + 1, Len(seq))

\* sorted(freq.items(), key=lambda x: x[1], reverse=True): by count, highest
\* first; the sort is stable, so equal counts keep their insertion order.
RECURSIVE SortByCountDesc(_, _)
SortByCountDesc(keys, tokens) ==
    IF keys = <<>> THEN <<>>
    ELSE LET best == CHOOSE i \in 1..Len(keys) :
                        /\ \A j \in 1..Len(keys) :
                              Count(keys[j], tokens) <= Count(keys[i], tokens)
                        /\ \A j \in 1..(i - 1) :
                              Count(keys[j], tokens) < Count(keys[i], tokens)
         IN  <<keys[best]>> \o SortByCountDesc(Without(keys, best), tokens)

RECURSIVE DropStop(_)
DropStop(keys) ==
    IF keys = <<>> THEN <<>>
    ELSE IF Head(keys) \in stop THEN DropStop(Tail(keys))
    ELSE <<Head(keys)>> \o DropStop(Tail(keys))

\* The length of the top_tokens slice, [:5] in the source.
TopTokens == 5

FirstN(seq, n) == SubSeq(seq, 1, IF Len(seq) < n THEN Len(seq) ELSE n)

\* for t in top_tokens: if t.lower() not in [k.lower() for k in keywords]:
\*     keywords.append(t.upper())
RECURSIVE AddTopTokens(_, _)
AddTopTokens(kws, top_tokens) ==
    IF top_tokens = <<>> THEN kws
    ELSE IF \E i \in 1..Len(kws) : Lower(kws[i]) = Lower(Head(top_tokens))
         THEN AddTopTokens(kws, Tail(top_tokens))
         ELSE AddTopTokens(Append(kws, Upper(Head(top_tokens))), Tail(top_tokens))

LocalKeywords(desc) ==
    LET job_text == Lower(desc)
        tokens == Tokens(SplitWords(job_text, <<>>))
        top_tokens == FirstN(DropStop(SortByCountDesc(FreqKeys(tokens, {}), tokens)),
                             TopTokens)
    IN  AddTopTokens(TermHits(common_terms, job_text), top_tokens)

MaxWords == 3

WordPool ==
    { <<"S", "e", "l", "e", "n", "i", "u", "m", "/", "J", "a", "v", "a">>,
      <<"R", "E", "S", "T", "-", "A", "P", "I">>,
      <<"B", "D", "D", ",">>,
      <<"t", "e", "s", "t", "i", "n", "g">>,
      <<"w", "i", "t", "h">>,
      <<"Q", "A">> }

JobDescs == { Join(<<" ">>, ws) : ws \in UNION { [1..n -> WordPool] : n \in 0..MaxWords } }

InitLocal ==
    /\ DocxIdle /\ SanitizeIdle /\ MainIdle /\ BotIdle
    /\ job_desc \in JobDescs
    /\ keywords = NoKeywords

BuildLocalKeywords ==
    /\ keywords = NoKeywords
    /\ keywords' = LocalKeywords(job_desc)
    /\ UNCHANGED <<job_desc, docx_vars, san_vars, main_vars, bot_vars>>

NextLocal == BuildLocalKeywords

SpecLocal == InitLocal /\ [][NextLocal]_vars

\* The most entries a skills or experience_updates list may have ("at most 6"
\* in the prompt of the LLM provider).
MaxListEntries == 6

\* C9: every skills list a provider hands to the document mutation has
\* between 0 and 6 entries; here the keyword list of the local provider.
C9_SkillsAtMostSix ==
    keywords # NoKeywords => Len(keywords) <= MaxListEntries

(***************************************************************************)
(* request_tailored_sections (resume_tailor.py, lines 65-86).  A response  *)
(* is a sequence of tokens: "{" and "}" are braces, "k" stands for one     *)
(* well-formed  "key": value  member and "n" for any text that is not      *)
(* JSON.  The only responses json.loads accepts are then the objects {}    *)
(* and {k}.                                                                *)
(***************************************************************************)
NoContent == <<"<none>">>

\* json.loads(t) succeeds.
IsJsonObject(t) == t = <<"{", "}">> \/ t = <<"{", "k", "}">>

RECURSIVE FirstIndexOf(_, _, _)
FirstIndexOf(c, t, i) ==
    IF i > Len(t) THEN 0
    ELSE IF t[i] = c THEN i
    ELSE FirstIndexOf(c, t, i + 1)

RECURSIVE LastIndexOf(_, _, _)
LastIndexOf(c, t, i) ==
    IF i < 1 THEN 0
    ELSE IF t[i] = c THEN i
    ELSE LastIndexOf(c, t, i - 1)

\* re.search(r"(\{.*\})", content, flags=re.S): the leftmost "{" that has a
\* "}" after it, up to the last "}" of the response; <<>> stands for no match
\* (a match is never empty).
BraceSpan(t) ==
    LET open == FirstIndexOf("{", t, 1)
        close == LastIndexOf("}", t, Len(t))
    IN  IF open # 0 /\ open < close THEN SubSeq(t, open, close) ELSE <<>>

\* A variant of RequestTailoredSections that returns the extracted span
\* without parsing it.
RequestTailoredSectionsUnchecked(response) ==
    IF IsJsonObject(response) THEN [raised |-> FALSE, parsed |-> response]
    ELSE IF BraceSpan(response) # <<>>
         THEN [raised |-> FALSE, parsed |-> BraceSpan(response)]
    ELSE [raised |-> TRUE, parsed |-> <<>>]

\* Lines 73-86: the parsed response, or RuntimeError raised to the caller.
RequestTailoredSections(response) ==
    IF IsJsonObject(response) THEN [raised |-> FALSE, parsed |-> response]
    ELSE IF BraceSpan(response) # <<>> /\ IsJsonObject(BraceSpan(response))
         THEN [raised |-> FALSE, parsed |-> BraceSpan(response)]
    ELSE [raised |-> TRUE, parsed |-> <<>>]

MaxContent == 3

Contents == UNION { [1..n -> {"{", "}", "k", "n"}] : n \in 0..MaxContent }

\* What openai.ChatCompletion.create (line 67) may raise.  quota says whether
\* the text of the exception holds one of the markers main() looks for
\* ("insufficient_quota", "RateLimitError", "quota").
LlmErrors ==
    { [kind |-> "RateLimitError", quota |-> TRUE],
      [kind |-> "APIConnectionError", quota |-> FALSE],
      [kind |-> "AuthenticationError", quota |-> FALSE] }

(***************************************************************************)
(* main() (main.py, lines 97-148).  Every send_message may raise (it is a  *)
(* blocking HTTP call); inside main()'s try that ends the run in the outer *)
(* handler like any other exception.                                       *)
(***************************************************************************)
MaxJobs == 4

\* for i, job in enumerate(jobs[:3])
TopJobs == 3

Selected == FirstN(jobs, TopJobs)

InitMain ==
    /\ DocxIdle /\ SanitizeIdle /\ LocalIdle /\ BotIdle
    /\ main_pc = "start"
    /\ base_exists \in BOOLEAN
    /\ pdf_exists \in BOOLEAN
    /\ jobs = <<>> /\ job_i = 0
    /\ content = NoContent /\ err = NoError
    /\ results = <<>> /\ crash = "None"

\* Lines 141-148: an exception reaches the outer handler; main() reports it
\* and returns.
Crashed(cause, res) ==
    /\ main_pc' = "crashed"
    /\ crash' = cause
    /\ results' = res
    /\ UNCHANGED <<base_exists, pdf_exists, jobs, job_i, content, err>>

\* Lines 99-106.
StartAgent ==
    /\ main_pc = "start"
    /\ \/ Crashed("SendError", results)
       \/ /\ ~base_exists /\ pdf_exists
          /\ Crashed("ConvertError", results)
       \/ /\ main_pc' = "search"
          /\ base_exists' = (base_exists \/ pdf_exists)
          /\ UNCHANGED <<pdf_exists, jobs, job_i, content, err, results, crash>>
    /\ UNCHANGED <<docx_vars, san_vars, local_vars, bot_vars>>

\* Lines 109-114.
SearchJobs ==
    /\ main_pc = "search"
    /\ \/ Crashed("SendError", results)
       \/ Crashed("SearchError", results)
       \/ \E n \in 0..MaxJobs :
             /\ jobs' = [k \in 1..n |-> k]
             /\ main_pc' = IF n = 0 THEN "no_jobs" ELSE "loop"
             /\ UNCHANGED <<base_exists, pdf_exists, job_i, content, err, results, crash>>
    /\ UNCHANGED <<docx_vars, san_vars, local_vars, bot_vars>>

\* tailor_and_save raised e; main() is in its handler (line 127).
Caught(e, response) ==
    /\ main_pc' = "except"
    /\ err' = e
    /\ content' = response
    /\ UNCHANGED <<base_exists, pdf_exists, jobs, job_i, results, crash>>

\* Lines 118-126: the message, then tailor_and_save (resume_tailor.py, lines
\* 178-198): the base document is read, the LLM is asked, the description and
\* the document are written.  Nothing in tailor_and_save catches an exception
\* of these steps (only the PDF conversion is guarded).
TailorOpenAI ==
    /\ main_pc = "loop"
    /\ job_i < Len(Selected)
    /\ \/ Crashed("SendError", results)
       \/ /\ ~base_exists
          /\ Caught([kind |-> "PackageNotFoundError", quota |-> FALSE], NoContent)
       \/ /\ base_exists
          /\ \E e \in LlmErrors : Caught(e, NoContent)
       \/ /\ base_exists
          /\ \E response \in Contents :
                IF RequestTailoredSections(response).raised
                THEN \E q \in BOOLEAN :
                        Caught([kind |-> "RuntimeError", quota |-> q], response)
                ELSE \/ \E k \in {"OSError", "TypeError", "IndexError"} :
                           Caught([kind |-> k, quota |-> FALSE], response)
                     \/ /\ results' = Append(results, "openai")
                        /\ job_i' = job_i + 1
                        /\ content' = NoContent
                        /\ err' = NoError
                        /\ UNCHANGED <<main_pc, base_exists, pdf_exists, jobs, crash>>
                     \/ /\ Crashed("SendError", Append(results, "openai"))
    /\ UNCHANGED <<docx_vars, san_vars, local_vars, bot_vars>>

\* Lines 131-133 and 136-138: the notice, local_tailor_and_save, the result
\* message.  local_tailor_and_save (lines 21-95) reads the base document and
\* writes the resume and the description; it catches nothing.
LocalFallback ==
    \/ Crashed("SendError", results)
    \/ /\ ~base_exists
       /\ Crashed("PackageNotFoundError", Append(results, "local_fatal"))
    \/ /\ base_exists
       /\ Crashed("OSError", Append(results, "local_fatal"))
    \/ /\ base_exists
       /\ results' = Append(results, "local")
       /\ job_i' = job_i + 1
       /\ main_pc' = "loop"
       /\ content' = NoContent
       /\ UNCHANGED <<base_exists, pdf_exists, jobs, err, crash>>
    \/ /\ base_exists
       /\ Crashed("SendError", Append(results, "local"))

\* Line 130 true: the quota branch.
FallbackQuota ==
    /\ main_pc = "except"
    /\ err.quota
    /\ LocalFallback
    /\ UNCHANGED <<docx_vars, san_vars, local_vars, bot_vars>>

\* A variant of FallbackOther in which an error that is not a quota error is
\* raised again instead of falling back.
FallbackOtherReraise ==
    /\ main_pc = "except"
    /\ ~err.quota
    /\ Crashed(err.kind, results)
    /\ UNCHANGED <<docx_vars, san_vars, local_vars, bot_vars>>

\* Line 134: every other error falls back as well.
FallbackOther ==
    /\ main_pc = "except"
    /\ ~err.quota
    /\ LocalFallback
    /\ UNCHANGED <<docx_vars, san_vars, local_vars, bot_vars>>

\* Line 140.
FinishAll ==
    /\ main_pc = "loop"
    /\ job_i = Len(Selected)
    /\ \/ Crashed("SendError", results)
       \/ /\ main_pc' = "done"
          /\ UNCHANGED <<base_exists, pdf_exists, jobs, job_i, content, err, results, crash>>
    /\ UNCHANGED <<docx_vars, san_vars, local_vars, bot_vars>>

Next ==
    \/ StartAgent \/ SearchJobs \/ TailorOpenAI
    \/ FallbackQuota \/ FallbackOther \/ FinishAll

Spec == InitMain /\ [][Next]_vars

FatalKinds == {"PackageNotFoundError", "OSError"}

\* C2: a fatal error in tailoring job i does not keep job i+1 from being
\* attempted: when main() has ended after a fatal tailoring error, every
\* selected job has been attempted.
C2_FatalErrorDoesNotStopBatch ==
    (main_pc \in {"done", "crashed"} /\ \E j \in 1..Len(results) : results[j] = "local_fatal")
    => Len(results) = Len(Selected)

\* json.loads accepts the whole response or the span from its first "{" to
\* its last "}".
ParsesEitherWay(t) ==
    \/ t \in {<<"{", "}">>, <<"{", "k", "}">>}
    \/ \E i \in 1..Len(t) : \E j \in (i + 1)..Len(t) :
          /\ t[i] = "{" /\ \A x \in 1..(i - 1) : t[x] # "{"
          /\ t[j] = "}" /\ \A x \in (j + 1)..Len(t) : t[x] # "}"
          /\ SubSeq(t, i, j) \in {<<"{", "}">>, <<"{", "k", "}">>}

\* C3, as claimed: a response that parses neither way never raises past the
\* provider: no exception of it reaches the caller.
C3_ParseFailureNeverRaises ==
    (main_pc = "except" /\ content # NoContent /\ ~ParsesEitherWay(content))
    => err.kind # "RuntimeError"

\* C3, amended: a response that parses neither way makes
\* request_tailored_sections raise RuntimeError, which tailor_and_save lets
\* through to main()'s per-job handler; a response that parses either way
\* never does.
C3_ParseFailureRaisesRuntimeError ==
    (main_pc = "except" /\ content # NoContent)
    => (err.kind = "RuntimeError" <=> ~ParsesEitherWay(content))

\* The span from the first "{" to the last "}" was tried and did not parse.
C3_Witness ==
    /\ main_pc = "except"
    /\ content # NoContent
    /\ \E i \in 1..Len(content) : \E j \in (i + 1)..Len(content) :
          content[i] = "{" /\ content[j] = "}"
    /\ ~ParsesEitherWay(content)
    /\ err.kind = "RuntimeError"

(***************************************************************************)
(* main_once of src/telegram_bot.py: one polling pass.  The offset is read *)
(* from data/telegram_offset.txt, the updates are fetched, every update    *)
(* advances max_offset and is then answered when it comes from the         *)
(* authorized chat, and max_offset is written back.  Python's None is the  *)
(* empty tuple and a present value v is <<v>>.                             *)
(***************************************************************************)
DigitSeq == <<"0", "1", "2", "3", "4", "5", "6", "7", "8", "9">>

\* str(n) of an integer
RECURSIVE IntToStr(_)
IntToStr(n) ==
    IF n < 0 THEN <<"-">> \o IntToStr(0 - n)
    ELSE IF n < 10 THEN <<DigitSeq[n + 1]>>
    ELSE IntToStr(n \div 10) \o <<DigitSeq[(n % 10) + 1]>>

DigitValue(c) == CHOOSE d \in 0..9 : DigitSeq[d + 1] = c

RECURSIVE DigitsValue(_, _)
DigitsValue(t, acc) ==
    IF t = <<>> THEN acc
    ELSE DigitsValue(Tail(t), 10 * acc + DigitValue(Head(t)))

\* int(t) of a text, surrounding whitespace ignored: <<n>>, or <<>> where
\* Python raises ValueError.
ParseInt(t) ==
    LET body == Strip(t)
        signed == body # <<>> /\ Head(body) \in {"-", "+"}
        digits == IF signed THEN Tail(body) ELSE body
    IN  IF digits = <<>> \/ \E k \in 1..Len(digits) : digits[k] \notin Digits
        THEN <<>>
        ELSE IF signed /\ Head(body) = "-"
             THEN <<0 - DigitsValue(digits, 0)>>
             ELSE <<DigitsValue(digits, 0)>>

\* load_offset(): None when the file is missing or does not hold an integer
LoadOffsetFile(file) == IF file = <<>> THEN <<>> ELSE ParseInt(file[1])

\* save_offset(offset): the file holds str(offset)
SaveOffsetFile(n) == <<IntToStr(n)>>

\* max_offset = offset or 0
OffsetOrZero(o) == IF o = <<>> \/ o[1] = 0 THEN 0 ELSE o[1]

\* A variant of NextMaxOffset that records the update's own id instead of
\* the id after it.
NextMaxOffsetNoIncrement(cur, u) ==
    IF cur >= u.update_id THEN cur ELSE u.update_id

\* max_offset = max(max_offset, u["update_id"] + 1)
NextMaxOffset(cur, u) ==
    IF cur >= u.update_id + 1 THEN cur ELSE u.update_id + 1

NoneStr == <<"N", "o", "n", "e">>

\* not (str(chat.get("id")) != str(CHAT_ID)): the update is let through
Authorized(chat_id, cid) ==
    (IF chat_id = <<>> THEN NoneStr ELSE IntToStr(chat_id[1]))
        = (IF cid = <<>> THEN NoneStr ELSE cid[1])

StartsWith(t, prefix) ==
    Len(t) >= Len(prefix) /\ SubSeq(t, 1, Len(prefix)) = prefix

CmdSearch == <<"/", "s", "e", "a", "r", "c", "h">>
CmdTailor == <<"/", "t", "a", "i", "l", "o", "r">>
CmdStatus == <<"/", "s", "t", "a", "t", "u", "s">>

\* What the branch taken for one authorized update did: the handlers it ran,
\* the messages it sent, the job cache it left and the exception it ended
\* with.  fails: the network call of the branch raises.
Outcome(ran, sent, cache, fails) ==
    [handled |-> ran, replies |-> sent, cache |-> cache,
     raised |-> IF fails THEN "RequestException" ELSE "None"]

\* handle_search_command(); found is the number of jobs search_jobs returns.
HandleSearchCommand(cache, found, fails) ==
    IF fails THEN Outcome(<<"search">>, <<"searching">>, cache, TRUE)
    ELSE IF found = 0
         THEN Outcome(<<"search">>, <<"searching", "no_jobs">>, cache, FALSE)
         ELSE Outcome(<<"search">>, <<"searching", "job_list">>, found, FALSE)

\* handle_tailor_command(arg)
HandleTailorCommand(arg, cache, fails) ==
    LET n == ParseInt(arg)
    IN  IF cache = 0
        THEN Outcome(<<"tailor">>, IF fails THEN <<>> ELSE <<"no_cache">>, cache, fails)
        ELSE IF n = <<>>
        THEN Outcome(<<"tailor">>, IF fails THEN <<>> ELSE <<"usage">>, cache, fails)
        ELSE IF n[1] - 1 < 0 \/ n[1] - 1 >= cache
        THEN Outcome(<<"tailor">>, IF fails THEN <<>> ELSE <<"invalid">>, cache, fails)
        ELSE Outcome(<<"tailor">>,
                     IF fails THEN <<"tailoring">> ELSE <<"tailoring", "created">>,
                     cache, fails)

\* handle_status()
HandleStatus(cache, fails) ==
    Outcome(<<"status">>, IF fails THEN <<>> ELSE <<"status">>, cache, fails)

\* Lines 117-128: the dispatch on the text of an authorized update.
Dispatch(text, cache, found, fails) ==
    IF StartsWith(text, CmdSearch) THEN HandleSearchCommand(cache, found, fails)
    ELSE IF StartsWith(text, CmdTailor)
         THEN LET parts == SplitWords(text, <<>>)
              IN  IF Len(parts) >= 2
                  THEN HandleTailorCommand(parts[2], cache, fails)
                  ELSE Outcome(<<>>, IF fails THEN <<>> ELSE <<"usage">>, cache, fails)
    ELSE IF StartsWith(text, CmdStatus) THEN HandleStatus(cache, fails)
    ELSE Outcome(<<>>, IF fails THEN <<>> ELSE <<"unknown">>, cache, fails)

MaxUpdates == 2
MaxUpdateId == 2

ChatIds == { <<>>, <<1>>, <<2>> }

UpdatePool == [update_id : 0..MaxUpdateId, chat_id : ChatIds]

\* What getUpdates may return: updates in any order, no update_id twice.
UpdateLists ==
    UNION { { l \in [1..n -> UpdatePool] :
                \A i, j \in 1..n : l[i].update_id = l[j].update_id => i = j }
            : n \in 0..MaxUpdates }

Texts ==
    { <<"/", "s", "e", "a", "r", "c", "h">>,
      <<"/", "t", "a", "i", "l", "o", "r", " ", "1">>,
      <<"/", "t", "a", "i", "l", "o", "r", " ", "7">>,
      <<"/", "t", "a", "i", "l", "o", "r", " ", "x">>,
      <<"/", "t", "a", "i", "l", "o", "r">>,
      <<"/", "s", "t", "a", "t", "u", "s">>,
      <<"h", "i">>,
      <<>> }

JobsFound == {0, 1}

EnvChatIds == { <<>>, << <<"1">> >> }

OffsetFiles == { <<>>, << <<"0">> >>, << <<"2", "\n">> >> }

InitBot ==
    /\ DocxIdle /\ SanitizeIdle /\ LocalIdle /\ MainIdle
    /\ CHAT_ID \in EnvChatIds
    /\ offset_file \in OffsetFiles
    /\ jobcache = 0
    /\ offset = <<>> /\ fetched = <<>> /\ max_offset = 0 /\ u_i = 0
    /\ handled = <<>> /\ replies = <<>>
    /\ bot_pc = "start" /\ bot_raised = "None"

bot_frame == <<docx_vars, san_vars, local_vars, main_vars>>

\* Line 99: offset = load_offset()
LoadOffset ==
    /\ bot_pc = "start"
    /\ offset' = LoadOffsetFile(offset_file)
    /\ bot_pc' = "fetch"
    /\ UNCHANGED <<CHAT_ID, offset_file, jobcache, fetched, max_offset, u_i,
                   handled, replies, bot_raised, bot_frame>>

\* Lines 100-103: get_updates raises (transport, raise_for_status) or returns
\* a list; an empty list ends the pass, nothing saved.
GetUpdates ==
    /\ bot_pc = "fetch"
    /\ \E ok \in BOOLEAN :
          IF ~ok
          THEN /\ bot_pc' = "raised" /\ bot_raised' = "RequestException"
               /\ UNCHANGED <<fetched, max_offset, u_i>>
          ELSE \E list \in UpdateLists :
                  /\ fetched' = list
                  /\ bot_raised' = bot_raised
                  /\ IF list = <<>>
                     THEN /\ bot_pc' = "returned"
                          /\ UNCHANGED <<max_offset, u_i>>
                     ELSE /\ bot_pc' = "loop"
                          /\ max_offset' = OffsetOrZero(offset)
                          /\ u_i' = 1
    /\ UNCHANGED <<CHAT_ID, offset_file, jobcache, offset, handled, replies, bot_frame>>

\* Lines 104-128, one turn of the loop.  The text of the update is read when
\* the loop reaches it (line 107).
ProcessUpdate ==
    /\ bot_pc = "loop"
    /\ max_offset' = NextMaxOffset(max_offset, fetched[u_i])
    /\ \E text \in Texts, found \in JobsFound, fails \in BOOLEAN :
          LET r == IF Authorized(fetched[u_i].chat_id, CHAT_ID)
                   THEN Dispatch(text, jobcache, found, fails)
                   ELSE Outcome(<<>>, <<>>, jobcache, FALSE)
          IN  /\ handled' = handled \o r.handled
              /\ replies' = replies \o r.replies
              /\ jobcache' = r.cache
              /\ bot_raised' = r.raised
              /\ IF r.raised # "None"
                 THEN bot_pc' = "raised" /\ u_i' = u_i
                 ELSE /\ u_i' = u_i + 1
                      /\ bot_pc' = IF u_i = Len(fetched) THEN "save" ELSE "loop"
    /\ UNCHANGED <<CHAT_ID, offset_file, offset, fetched, bot_frame>>

\* Line 130: save_offset(max_offset) writes the file or fails.
SaveOffset ==
    /\ bot_pc = "save"
    /\ \E written \in BOOLEAN :
          IF written
          THEN /\ offset_file' = SaveOffsetFile(max_offset)
               /\ bot_pc' = "done"
               /\ bot_raised' = bot_raised
          ELSE /\ offset_file' = offset_file
               /\ bot_pc' = "raised"
               /\ bot_raised' = "OSError"
    /\ UNCHANGED <<CHAT_ID, jobcache, offset, fetched, max_offset, u_i,
                   handled, replies, bot_frame>>

NextBot == LoadOffset \/ GetUpdates \/ ProcessUpdate \/ SaveOffset

SpecBot == InitBot /\ [][NextBot]_vars

\* The chat id of the update is not the configured one: one of the two is
\* missing and the other is not, or the two name different chats.
Differs(chat_id, cid) ==
    ~ \/ chat_id = <<>> /\ cid = <<>>
      \/ chat_id # <<>> /\ cid # <<>> /\ ParseInt(cid[1]) = chat_id

\* C13: in a polling pass, the loop turn for an update whose chat id differs
\* from CHAT_ID runs no handler, sends no reply, leaves the job cache alone
\* and raises nothing, whatever the text; and when the pass ends without
\* exception the offset on file is greater than the update_id of every fetched
\* update and not lower than the offset loaded at the start (a pass that
\* fetched nothing leaves the file as it was loaded).
C13_UnauthorizedIgnoredOffsetAdvances ==
    [][ /\ (bot_pc = "loop" /\ Differs(fetched[u_i].chat_id, CHAT_ID))
           => /\ handled' = handled
              /\ replies' = replies
              /\ jobcache' = jobcache
              /\ bot_raised' = "None"
        /\ bot_pc' = "done"
           => /\ offset_file' # <<>>
              /\ ParseInt(offset_file'[1]) # <<>>
              /\ \A i \in 1..Len(fetched') :
                    ParseInt(offset_file'[1])[1] > fetched'[i].update_id
              /\ offset' # <<>> => ParseInt(offset_file'[1])[1] >= offset'[1]
        /\ bot_pc' = "returned"
           => /\ fetched' = <<>>
              /\ offset_file' = offset_file
              /\ LoadOffsetFile(offset_file') = offset'
      ]_vars

\* A pass ended with the offset advanced past an ignored update: the update
\* with the highest id came from another chat, an authorized one was answered.
C13_Witness ==
    /\ bot_pc = "done"
    /\ CHAT_ID # <<>>
    /\ offset # <<>>
    /\ ParseInt(offset_file[1])[1] > offset[1]
    /\ Len(handled) = 1
    /\ \E i, j \in 1..Len(fetched) :
          /\ Differs(fetched[i].chat_id, CHAT_ID)
          /\ ~Differs(fetched[j].chat_id, CHAT_ID)
          /\ fetched[i].update_id > fetched[j].update_id
          /\ ParseInt(offset_file[1])[1] = fetched[i].update_id + 1

====
